---- MODULE Spec2Model ----
(***************************************************************************)
(* A model of the IsaricAnalytics core: the string/field sanitiser         *)
(* (utils.py), the IsaricData container with validate() and copy()         *)
(* (data/core.py) and the Encoder's option collapsing and one-hot          *)
(* encoding (cleaning/encode.py).                                          *)
(*                                                                         *)
(* A Python string is a sequence of one-character strings, so that the     *)
(* sanitiser is computed character by character as the code does.  A       *)
(* table cell is a string, or one of the reserved cells NA, TrueCell and   *)
(* FalseCell.  Objects (DataFrames, dicts) live on a heap and a dataset    *)
(* holds references to them, so that aliasing between a dataset and its    *)
(* copy is visible.                                                        *)
(***************************************************************************)
EXTENDS Integers, Sequences, FiniteSets, TLC

VARIABLES
    heap,   \* reference -> object (DataFrame or dict); 0 is None
    d,      \* the caller's IsaricData: attribute name -> reference
    r,      \* the dataset returned by the last copy()/one_hot_encode(), or NoData
    op,     \* the last operation: its name, arguments and the exception raised
    pre,    \* snapshot of (d, heap) taken when the last operation started
    fn,     \* pure-function specifications: the function applied ("none" before)
    arg,    \* pure-function specifications: its argument
    ret,    \* pure-function specifications: its result
    loader, \* the Loader: what its attributes metadata and data_dictionary hold
    calls   \* the calls made on the Loader so far, each with its outcome

vars == <<heap, d, r, op, pre, fn, arg, ret, loader, calls>>

----------------------------------------------------------------------------
(* Bounds *)

\* number of rows of every data table
NRows == 2
\* length of the field handed to sanitise_field in SpecSanitise
MaxFieldLen == 2
\* number of mutations made through a dataset after a call
MaxMutations == 1
\* length of the strings handed to sanitise_string in SpecString
MaxStrLen == 3
\* length of the field handed to _collapse_options in SpecCollapse
MaxCollapseLen == 3
\* number of calls made on a Loader in SpecLoader
MaxCalls == 3

----------------------------------------------------------------------------
(* Strings *)

RECURSIVE Concat(_)
\* "".join(parts)
Concat(parts) ==
    IF parts = <<>> THEN <<>> ELSE Head(parts) \o Concat(Tail(parts))

\* str.isspace for the characters of the model
IsSpace(c) == c = " "

\* str.lower for one character
Lower(c) == IF c = "A" THEN "a" ELSE IF c = "B" THEN "b" ELSE c

\* the character class [0-9a-z_]
IsClean(c) == c \in {"0", "1", "2", "3", "4", "5", "6", "7", "8", "9",
                     "a", "b", "c", "f", "g", "o", "t", "h", "e", "r",
                     "m", "i", "s", "n", "_"}

\* str.isalpha for one character
IsAlpha(c) == c \in {"a", "b", "c", "f", "g", "o", "t", "h", "e", "r",
                     "m", "i", "s", "n", "A", "B"}

RECURSIVE LStrip(_)
LStrip(s) ==
    IF s # <<>> /\ IsSpace(Head(s)) THEN LStrip(Tail(s)) ELSE s

RECURSIVE RStrip(_)
RStrip(s) ==
    IF s # <<>> /\ IsSpace(s[Len(s)])
    THEN RStrip(SubSeq(s, 1, Len(s) - 1))
    ELSE s

\* str.strip()
Strip(s) == RStrip(LStrip(s))

\* str.lower()
LowerStr(s) == [i \in 1..Len(s) |-> Lower(s[i])]

RECURSIVE SubSpaces(_)
\* re.sub(r"\s+", "_", s): every maximal run of whitespace becomes one "_"
SubSpaces(s) ==
    IF s = <<>> THEN <<>>
    ELSE IF IsSpace(Head(s)) THEN <<"_">> \o SubSpaces(LStrip(s))
    ELSE <<Head(s)>> \o SubSpaces(Tail(s))

\* re.sub(r"[^0-9a-z_]", "", s)
SubUnclean(s) == SelectSeq(s, IsClean)

\* a plausible slip: the characters outside [0-9a-z_] are not removed
sanitise_string_unfiltered(string) == SubSpaces(LowerStr(Strip(string)))

\* utils.sanitise_string
sanitise_string(string) == SubUnclean(SubSpaces(LowerStr(Strip(string))))

----------------------------------------------------------------------------
(* utils.sanitise_field *)

Digits == <<"0", "1", "2", "3", "4", "5", "6", "7", "8", "9">>

RECURSIVE IntStr(_)
\* str(n) for a natural number
IntStr(n) ==
    IF n < 10 THEN <<Digits[n + 1]>>
    ELSE IntStr(n \div 10) \o <<Digits[(n % 10) + 1]>>

\* x in xs, for a sequence
InSeq(x, xs) == \E i \in 1..Len(xs) : xs[i] = x

RECURSIVE Distinct(_)
\* the keys of {value: ... for value in field}: first-seen order, no repeats
Distinct(field) ==
    IF field = <<>> THEN <<>>
    ELSE LET init == Distinct(SubSeq(field, 1, Len(field) - 1))
             last == field[Len(field)]
         IN  IF InSeq(last, init) THEN init ELSE Append(init, last)

\* groupby("clean").cumcount(): how many earlier rows carry the same value
cumcount(cleans, i) == Cardinality({j \in 1..(i - 1) : cleans[j] = cleans[i]})

RECURSIVE SubSuffix0(_)
\* re.sub("\\__0", "", x): every occurrence of "__0" is removed, wherever it
\* stands in the string
SubSuffix0(x) ==
    IF Len(x) < 3 THEN x
    ELSE IF SubSeq(x, 1, 3) = <<"_", "_", "0">>
         THEN SubSuffix0(SubSeq(x, 4, Len(x)))
         ELSE <<Head(x)>> \o SubSuffix0(Tail(x))

\* mapping_df["clean"] after lines 44-49, for the rows `keys`
clean_column(keys) ==
    LET cleans == [i \in 1..Len(keys) |-> sanitise_string(keys[i])]
        catted == [i \in 1..Len(keys) |->
                      cleans[i] \o <<"_", "_">> \o IntStr(cumcount(cleans, i))]
    IN  [i \in 1..Len(keys) |-> SubSuffix0(catted[i])]

\* the mapping returned by sanitise_field: an ordered dict, here the sequence
\* of its (original, clean) items
sanitise_mapping(field) ==
    LET keys == Distinct(field)
        clean == clean_column(keys)
    IN  [i \in 1..Len(keys) |-> [orig |-> keys[i], clean |-> clean[i]]]

\* mapping[value], for a value that is a key
MapGet(mapping, value) ==
    mapping[CHOOSE i \in 1..Len(mapping) : mapping[i].orig = value].clean

\* field.replace(mapping): every key is replaced by its value, all at once
Replace(field, mapping) ==
    [i \in 1..Len(field) |->
        IF \E k \in 1..Len(mapping) : mapping[k].orig = field[i]
        THEN MapGet(mapping, field[i])
        ELSE field[i]]

\* utils.sanitise_field: (sanitised_field, mapping)
sanitise_field(field) ==
    LET mapping == sanitise_mapping(field)
    IN  [field |-> Replace(field, mapping), mapping |-> mapping]

----------------------------------------------------------------------------
(* Cells, objects, the heap and the dataset *)

\* the missing-value marker (NaN) and the two boolean cells
NA == <<"<NA>">>
TrueCell == <<"<True>">>
FalseCell == <<"<False>">>

\* Python's None, as a reference and as the value of an optional argument
None == 0

\* the value of `loader` where no Loader was constructed
NoLoader == [metadata |-> "<no loader>", data_dictionary |-> "<no loader>"]
NoneArg == <<"<None>">>

\* a pandas DataFrame holding a data table: its columns, in order
Table(columns) ==
    [kind |-> "DataFrame", columns |-> columns, rows |-> <<>>, items |-> 0]

\* a pandas DataFrame holding the data dictionary: its rows, in order
Schema(rows) ==
    [kind |-> "DataFrame", columns |-> <<>>, rows |-> rows, items |-> 0]

\* a dict (metadata, events), owned by value
Dict(items) ==
    [kind |-> "dict", columns |-> <<>>, rows |-> <<>>, items |-> items]

\* isinstance(value, pd.DataFrame) and isinstance(value, dict), for a reference
IsDataFrame(hp, v) == v # None /\ hp[v].kind = "DataFrame"
IsDict(hp, v) == v # None /\ hp[v].kind = "dict"

\* IsaricData.__dict__, in the order the dataclass declares its fields
Attrs == <<"metadata", "data_dictionary", "presentation", "outcome",
           "daily", "events">>

\* "no dataset": the value of r before any call returned one
NoData == [a \in {Attrs[i] : i \in 1..Len(Attrs)} |-> -1]

\* what a reference that is None (or unset) stands for in Deref
NoObject(v) ==
    [kind |-> "None", columns |-> <<>>, rows |-> <<>>, items |-> v]

\* the objects a dataset refers to, attribute by attribute
Deref(hp, ds) ==
    [a \in DOMAIN ds |-> IF ds[a] > 0 THEN hp[ds[a]] ELSE NoObject(ds[a])]

----------------------------------------------------------------------------
(* IsaricData.validate *)

\* the lambda of validate_data_dictionary, line 65; "IndexError" when
\* str(x)[0] is evaluated on the empty string
field_name_check(x) ==
    IF x # sanitise_string(x) THEN "True"
    ELSE IF x = <<>> THEN "IndexError"
    ELSE IF ~IsAlpha(x[1]) THEN "True"
    ELSE "False"

\* IsaricData.validate_metadata
validate_metadata(hp, ds) ==
    IF ~IsDict(hp, ds.metadata) THEN "TypeError" ELSE "ok"

\* IsaricData.validate_data_dictionary
validate_data_dictionary(hp, ds) ==
    IF ~IsDataFrame(hp, ds.data_dictionary) THEN "TypeError"
    ELSE LET rows == hp[ds.data_dictionary].rows
             check == [i \in 1..Len(rows) |-> field_name_check(rows[i].field_name)]
         IN  IF \E i \in 1..Len(rows) : check[i] = "IndexError" THEN "IndexError"
             ELSE IF \E i \in 1..Len(rows) : check[i] = "True" THEN "ValueError"
             ELSE "ok"

\* a plausible slip: the type of the table is not checked
validate_table_unchecked(hp, ds, table_name) == "ok"

\* IsaricData.validate_table
validate_table(hp, ds, table_name) ==
    IF ~IsDataFrame(hp, ds[table_name]) THEN "TypeError" ELSE "ok"

\* IsaricData.validate: the first check that raises decides the exception
validate(hp, ds) ==
    IF validate_metadata(hp, ds) # "ok" THEN validate_metadata(hp, ds)
    ELSE IF validate_data_dictionary(hp, ds) # "ok"
         THEN validate_data_dictionary(hp, ds)
    ELSE IF validate_table(hp, ds, "presentation") # "ok"
         THEN validate_table(hp, ds, "presentation")
    ELSE validate_table(hp, ds, "outcome")

----------------------------------------------------------------------------
(* IsaricData.copy *)

\* a plausible slip: a table named in table_names is not copied
copy_condition_unnamed(hp, name, value, table_names) ==
    IF IsDataFrame(hp, value) /\ table_names = NoneArg THEN "True"
    ELSE IF table_names = NoneArg THEN "TypeError"
    ELSE "False"

\* the condition of lines 138-141, `isinstance(value, pd.DataFrame) and
\* table_names is None or name in table_names`: Python reads it as
\* (A and B) or C, and C raises TypeError when table_names is None
copy_condition(hp, name, value, table_names) ==
    IF IsDataFrame(hp, value) /\ table_names = NoneArg THEN "True"
    ELSE IF table_names = NoneArg THEN "TypeError"
    ELSE IF InSeq(name, table_names) THEN "True"
    ELSE "False"

RECURSIVE copy_attrs(_, _, _, _, _)
\* the loop of lines 137-148 from attribute i on; `acc` is the new instance
\* under construction and `hp` the heap with the objects allocated so far
copy_attrs(hp, ds, table_names, i, acc) ==
    IF i > Len(Attrs) THEN [err |-> "none", data |-> acc, heap |-> hp]
    ELSE
      LET name == Attrs[i]
          value == ds[name]
          cond == copy_condition(hp, name, value, table_names)
          fresh == Len(hp) + 1
      IN  IF cond = "TypeError"
          THEN [err |-> "TypeError", data |-> NoData, heap |-> hp]
          ELSE IF cond = "True"
          THEN \* value.copy(deep=True)
               IF value = None
               THEN [err |-> "AttributeError", data |-> NoData, heap |-> hp]
               ELSE IF IsDict(hp, value)
               THEN [err |-> "TypeError", data |-> NoData, heap |-> hp]
               ELSE copy_attrs(Append(hp, hp[value]), ds, table_names, i + 1,
                               [acc EXCEPT ![name] = fresh])
          ELSE IF IsDict(hp, value)
          THEN \* deepcopy(value)
               copy_attrs(Append(hp, hp[value]), ds, table_names, i + 1,
                          [acc EXCEPT ![name] = fresh])
          ELSE copy_attrs(hp, ds, table_names, i + 1,
                          [acc EXCEPT ![name] = value])

\* IsaricData.copy: the exception raised ("none" if none), the new dataset and
\* the heap after the call; a call that raises leaves the heap as it was
copy(hp, ds, table_names) ==
    LET res == copy_attrs(hp, ds, table_names, 1, NoData)
    IN  IF res.err = "none" THEN res
        ELSE [err |-> res.err, data |-> NoData, heap |-> hp]

----------------------------------------------------------------------------
(* Encoder._collapse_options *)

\* an optional number: None, or the rational num/den (den = 1 for an int)
NoNumber == [none |-> TRUE, num |-> 0, den |-> 1]
Number(num, den) == [none |-> FALSE, num |-> num, den |-> den]

\* Python truthiness of an optional number: None and 0 are false
Truthy(x) == ~x.none /\ x.num # 0

\* the label the missing values are counted under, and the replacement
nan_string == <<"m", "i", "s", "s", "i", "n", "g">>
other_string == <<"o", "t", "h", "e", "r">>

\* field.fillna(nan_string)
fillna(field, value) ==
    [i \in 1..Len(field) |-> IF field[i] = NA THEN value ELSE field[i]]

\* how often `value` occurs in `field`
CountOf(field, value) == Cardinality({i \in 1..Len(field) : field[i] = value})

RECURSIVE InsertRanked(_, _, _, _)
\* insert category `value` into the ranking `ranked` of `field`: after every
\* category that is more frequent; among equally frequent categories the
\* place depends on the sort (`tie`), which value_counts leaves unspecified
InsertRanked(field, ranked, value, tie) ==
    IF ranked = <<>> THEN <<value>>
    ELSE LET c == CountOf(field, value)
             h == CountOf(field, Head(ranked))
         IN  IF h > c \/ (h = c /\ tie = "first_seen")
             THEN <<Head(ranked)>> \o InsertRanked(field, Tail(ranked), value, tie)
             ELSE <<value>> \o ranked

RECURSIVE RankFrom(_, _, _)
RankFrom(field, keys, tie) ==
    IF keys = <<>> THEN <<>>
    ELSE InsertRanked(field,
                      RankFrom(field, SubSeq(keys, 1, Len(keys) - 1), tie),
                      keys[Len(keys)], tie)

\* counts.index of field.value_counts(normalize=True): the categories by
\* descending frequency
value_counts(field, tie) == RankFrom(field, Distinct(field), tie)

RECURSIVE SumCounts(_, _, _)
\* the number of cells in the first k categories of the ranking
SumCounts(field, ranked, k) ==
    IF k = 0 THEN 0
    ELSE CountOf(field, ranked[k]) + SumCounts(field, ranked, k - 1)

\* a plausible slip: the cumulative sum is not shifted, so that the share of
\* the category itself counts too
over_threshold_unshifted(field, ranked, k, cumulative_threshold) ==
    SumCounts(field, ranked, k) * cumulative_threshold.den
        > cumulative_threshold.num * Len(field)

\* line 80, counts.shift().fillna(0).cumsum() > cumulative_threshold, for the
\* category of rank k: the share of the categories ranked before it
over_threshold(field, ranked, k, cumulative_threshold) ==
    SumCounts(field, ranked, k - 1) * cumulative_threshold.den
        > cumulative_threshold.num * Len(field)

\* a plausible slip: the missing cells are matched under the label they were
\* counted under
replace_isin_filled(field, replace_values, replacement_string) ==
    [i \in 1..Len(field) |->
        IF fillna(field, nan_string)[i] \in replace_values
        THEN replacement_string ELSE field[i]]

\* field.loc[field.isin(replace_values)] = replacement_string
replace_isin(field, replace_values, replacement_string) ==
    [i \in 1..Len(field) |->
        IF field[i] # NA /\ field[i] \in replace_values
        THEN replacement_string ELSE field[i]]

\* Encoder._collapse_options; err is "TypeError" when line 67 compares None
\* with a number
_collapse_options(field, cumulative_threshold, max_n_options, replacement_string, tie) ==
    IF cumulative_threshold.none THEN [err |-> "TypeError", field |-> field]
    ELSE
      LET invalid_threshold ==
              \/ cumulative_threshold.num < 0
              \/ cumulative_threshold.num > cumulative_threshold.den
      IN  IF Truthy(cumulative_threshold) /\ invalid_threshold
          THEN [err |-> "none", field |-> field]
          ELSE
            LET counts == value_counts(fillna(field, nan_string), tie)
                filled == fillna(field, nan_string)
                replace1 == {counts[k] : k \in
                               {k \in 1..Len(counts) :
                                  over_threshold(filled, counts, k,
                                                 cumulative_threshold)}}
                field1 == IF Truthy(cumulative_threshold)
                          THEN replace_isin(field, replace1, replacement_string)
                          ELSE field
                replace2 == {counts[k] : k \in
                               {k \in 1..Len(counts) : k > max_n_options.num + 1}}
                field2 == IF Truthy(max_n_options)
                          THEN replace_isin(field1, replace2, replacement_string)
                          ELSE field1
            IN  [err |-> "none", field |-> field2]

----------------------------------------------------------------------------
(* Tables and the data dictionary *)

\* name in df.columns
HasColumn(columns, name) == \E i \in 1..Len(columns) : columns[i].name = name

\* df[name], for a column that exists (the first one of that name)
Column(columns, name) ==
    columns[CHOOSE i \in 1..Len(columns) :
               /\ columns[i].name = name
               /\ \A j \in 1..(i - 1) : columns[j].name # name].cells

\* df.loc[:, name] = cells, in place
SetColumn(columns, name, cells) ==
    [i \in 1..Len(columns) |->
        IF columns[i].name = name
        THEN [name |-> name, cells |-> cells] ELSE columns[i]]

\* the cells of `cells` that are not missing, in row order
NotNA(cells) == SelectSeq(cells, LAMBDA c : c # NA)

\* IsaricData.get_field_names
get_field_names(rows, field_types, table_names) ==
    LET hit == SelectSeq(rows, LAMBDA row : /\ row.field_type \in field_types
                                            /\ row.table_name \in table_names)
    IN  [i \in 1..Len(hit) |-> hit[i].field_name]

\* data_dictionary.index[data_dictionary["field_name"] == field_name]
\* .tolist()[0]: the position of the first row of that name (the index of
\* the data dictionary is 0..n-1; positions here count from 1)
first_idx(rows, field_name) ==
    CHOOSE i \in 1..Len(rows) :
        /\ rows[i].field_name = field_name
        /\ \A j \in 1..(i - 1) : rows[j].field_name # field_name

\* the separator of the one-hot column names (prefix_sep, line 180)
prefix_sep == <<"_", "_", "_">>

\* f"{field_name}___{clean_option}"
ohe_name(field_name, clean_option) == field_name \o prefix_sep \o clean_option

\* the code point order of the characters a sanitised string can hold
CharOrder == <<"0", "1", "2", "3", "4", "5", "6", "7", "8", "9", "_",
               "a", "b", "c", "e", "f", "g", "h", "i", "m", "n", "o", "r",
               "s", "t">>

CharRank(c) == CHOOSE i \in 1..Len(CharOrder) : CharOrder[i] = c

RECURSIVE StrLess(_, _)
\* x < y for Python strings
StrLess(x, y) ==
    IF y = <<>> THEN FALSE
    ELSE IF x = <<>> THEN TRUE
    ELSE IF Head(x) = Head(y) THEN StrLess(Tail(x), Tail(y))
    ELSE CharRank(Head(x)) < CharRank(Head(y))

RECURSIVE SortStrs(_)
\* sorted(S) for a set of strings
SortStrs(S) ==
    IF S = {} THEN <<>>
    ELSE LET least == CHOOSE x \in S : \A y \in S \ {x} : StrLess(x, y)
         IN  <<least>> \o SortStrs(S \ {least})

\* the set of the elements of a sequence
Range(xs) == {xs[i] : i \in 1..Len(xs)}

\* the dummy columns pd.get_dummies makes of one column: one per distinct
\* non-missing value, in sorted order; a missing cell is False in all of them
\* (dummy_na=False)
dummies(field_name, cells) ==
    LET levels == SortStrs(Range(cells) \ {NA})
    IN  [k \in 1..Len(levels) |->
            [name |-> ohe_name(field_name, levels[k]),
             cells |-> [i \in 1..Len(cells) |->
                           IF cells[i] = levels[k] THEN TrueCell ELSE FalseCell]]]

\* pd.get_dummies(data=df, columns=names, prefix_sep="___", dummy_na=False):
\* the other columns in their order, then the dummies of each named column
get_dummies(columns, names) ==
    SelectSeq(columns, LAMBDA col : ~InSeq(col.name, names))
      \o Concat([k \in 1..Len(names) |->
                    dummies(names[k], Column(columns, names[k]))])

----------------------------------------------------------------------------
(* Encoder.one_hot_encode *)

\* hasattr(self.data, table_name), for the names of the dataclass fields
hasattr(table_name) == InSeq(table_name, Attrs)

\* filters.skip_logic_filter: raises KeyError when the table the data
\* dictionary names for the field has no such column; the mask it returns is
\* True in every row
skip_logic_filter(hp, data, field_name) ==
    LET rows == hp[data.data_dictionary].rows
        table_name == rows[first_idx(rows, field_name)].table_name
    IN  IF HasColumn(hp[data[table_name]].columns, field_name)
        THEN "ok" ELSE "KeyError"

RECURSIVE collapse_loop(_, _, _, _, _, _, _, _)
\* lines 152-164 from field k on: each field is collapsed in place in the
\* table object `df`; the heap keeps the fields already written when one
\* raises
collapse_loop(hp, data, df, names, k, cumulative_threshold, max_n_options, tie) ==
    IF k > Len(names) THEN [err |-> "none", heap |-> hp]
    ELSE
      LET field_name == names[k]
          columns == hp[df].columns
      IN  IF skip_logic_filter(hp, data, field_name) # "ok"
             \/ ~HasColumn(columns, field_name)
          THEN [err |-> "KeyError", heap |-> hp]
          ELSE
            LET res == _collapse_options(Column(columns, field_name),
                                         cumulative_threshold, max_n_options,
                                         other_string, tie)
            IN  IF res.err # "none" THEN [err |-> res.err, heap |-> hp]
                ELSE collapse_loop(
                       [hp EXCEPT ![df].columns =
                            SetColumn(columns, field_name, res.field)],
                       data, df, names, k + 1,
                       cumulative_threshold, max_n_options, tie)

\* df.loc[~nan_mask, field_name] = sanitised field: the cells of the column
\* after line 171
sanitised_cells(cells, mapping) ==
    [i \in 1..Len(cells) |->
        IF cells[i] = NA THEN NA ELSE MapGet(mapping, cells[i])]

RECURSIVE sanitise_loop(_, _, _, _, _)
\* lines 168-175 from field k on: each field is sanitised in place in the
\* table object `df`; `maps` collects field_option_mapping in field order
sanitise_loop(hp, df, names, k, maps) ==
    IF k > Len(names) THEN [err |-> "none", heap |-> hp, maps |-> maps]
    ELSE
      LET field_name == names[k]
          columns == hp[df].columns
      IN  IF ~HasColumn(columns, field_name)
          THEN [err |-> "KeyError", heap |-> hp, maps |-> maps]
          ELSE
            LET cells == Column(columns, field_name)
                mapping == sanitise_field(NotNA(cells)).mapping
            IN  sanitise_loop(
                  [hp EXCEPT ![df].columns =
                       SetColumn(columns, field_name,
                                 sanitised_cells(cells, mapping))],
                  df, names, k + 1, Append(maps, mapping))

\* ohe_field_names, lines 188-190
ohe_field_names(field_name, mapping) ==
    [m \in 1..Len(mapping) |-> ohe_name(field_name, mapping[m].clean)]

\* a plausible slip: the rows where the field is missing keep the False of
\* get_dummies
set_missing_skipped(columns, names, nan_mask) == columns

\* df.loc[nan_mask, ohe_field_names] = np.nan, line 196
set_missing(columns, names, nan_mask) ==
    [c \in 1..Len(columns) |->
        IF InSeq(columns[c].name, names)
        THEN [name |-> columns[c].name,
              cells |-> [i \in 1..Len(columns[c].cells) |->
                            IF nan_mask[i] THEN NA ELSE columns[c].cells[i]]]
        ELSE columns[c]]

\* data_dictionary_insert, lines 202-216: one row per item of the mapping
data_dictionary_insert(rows, field_name, table_name, mapping) ==
    LET parent == rows[first_idx(rows, field_name)]
    IN  [m \in 1..Len(mapping) |->
            [field_name |-> ohe_name(field_name, mapping[m].clean),
             field_label |-> mapping[m].orig,
             field_type |-> "boolean",
             field_unit |-> NA,
             field_options |-> NA,
             field_skip_logic |-> parent.field_skip_logic,
             parent_field_name |-> parent.field_name,
             section |-> parent.section,
             table_name |-> table_name,
             phase |-> parent.phase]]

RECURSIVE expand_loop(_, _, _, _, _, _, _, _)
\* lines 185-219 from field k on, on the table get_dummies returned
\* (`columns`, not yet bound to the dataset): the first failing check raises.
\* `inserts` maps a position of the data dictionary to the rows to insert
\* after it.
expand_loop(columns, rows, table_name, names, nan_masks, maps, k, inserts) ==
    IF k > Len(names)
    THEN [err |-> "none", columns |-> columns, inserts |-> inserts]
    ELSE
      LET field_name == names[k]
          mapping == maps[k]
          ohe_names == ohe_field_names(field_name, mapping)
          idx == first_idx(rows, field_name)
      IN  IF \E m \in 1..Len(ohe_names) : ~HasColumn(columns, ohe_names[m])
          THEN \* line 193
               [err |-> "KeyError", columns |-> columns, inserts |-> inserts]
          ELSE IF Cardinality(Range(ohe_names)) # Len(ohe_names)
          THEN \* line 195: a column is named twice in the key of the
               \* assignment, pandas raises "Columns must be same length as key"
               [err |-> "ValueError", columns |-> columns, inserts |-> inserts]
          ELSE IF mapping = <<>>
          THEN \* line 218: the empty frame has none of the columns selected
               [err |-> "KeyError", columns |-> columns, inserts |-> inserts]
          ELSE expand_loop(
                 set_missing(columns, ohe_names, nan_masks[k]),
                 rows, table_name, names, nan_masks, maps, k + 1,
                 [i \in 1..Len(rows) |->
                     IF i = idx
                     THEN data_dictionary_insert(rows, field_name, table_name,
                                                 mapping)
                     ELSE inserts[i]])

\* a plausible slip: the inserted rows are appended at the end of the data
\* dictionary
merge_inserts_at_end(rows, inserts) ==
    rows \o Concat(inserts)

\* lines 222-232: the data dictionary with every insert placed after the row
\* it belongs to
merge_inserts(rows, inserts) ==
    Concat([i \in 1..Len(rows) |-> <<rows[i]>> \o inserts[i]])

\* the outcome of a call: the exception raised ("none" if it returned), the
\* attributes of self.data when the call ended, and the heap
Outcome(err, data, hp) == [err |-> err, data |-> data, heap |-> hp]

\* lines 140-149: the categorical fields of the table, cut down to the
\* caller's field_names when it gave any
valid_field_names(rows, table_name, field_names) ==
    LET categorical_field_names ==
            get_field_names(rows, {"categorical"}, {table_name})
        names == IF field_names = NoneArg \/ field_names = <<>>
                 THEN categorical_field_names ELSE field_names
    IN  SelectSeq(names, LAMBDA name : InSeq(name, categorical_field_names))

\* lines 234-240: the new table and data dictionary are bound to self.data,
\* which is then validated when the Encoder was built with validate=True
bind_step(hp, data, do_validate) ==
    LET checked == IF do_validate THEN validate(hp, data) ELSE "ok"
    IN  Outcome(IF checked = "ok" THEN "none" ELSE checked, data, hp)

\* lines 222-232, after the loop of lines 185-219 ended as `expanded`: a
\* raise leaves self.data with the table sanitised so far; otherwise the
\* expanded table and the merged data dictionary are new objects
merge_step(expanded, hp, data, table_name, do_validate) ==
    IF expanded.err # "none" THEN Outcome(expanded.err, data, hp)
    ELSE bind_step(
           hp \o <<Table(expanded.columns),
                   Schema(merge_inserts(hp[data.data_dictionary].rows,
                                        expanded.inserts))>>,
           [data EXCEPT ![table_name] = Len(hp) + 1,
                        !.data_dictionary = Len(hp) + 2],
           do_validate)

\* field_nan_mask, line 175: where each field of the sanitised table is missing
nan_masks(columns, names) ==
    [k \in 1..Len(names) |->
        [i \in 1..Len(Column(columns, names[k])) |->
            Column(columns, names[k])[i] = NA]]

\* lines 177-219, after the loop of lines 168-175 ended as `sanitised`
expand_step(sanitised, data, table_name, valid, do_validate) ==
    IF sanitised.err # "none" THEN Outcome(sanitised.err, data, sanitised.heap)
    ELSE IF data[table_name] = None
    THEN \* line 177, get_dummies(data=None, columns=[]): None is factorised
         \* as an empty Series and len(None) raises when the empty frame is
         \* built
         Outcome("TypeError", data, sanitised.heap)
    ELSE merge_step(
           expand_loop(
             get_dummies(sanitised.heap[data[table_name]].columns, valid),
             sanitised.heap[data.data_dictionary].rows, table_name, valid,
             nan_masks(sanitised.heap[data[table_name]].columns, valid),
             sanitised.maps, 1,
             [i \in 1..Len(sanitised.heap[data.data_dictionary].rows) |-> <<>>]),
           sanitised.heap, data, table_name, do_validate)

\* lines 166-175, after the loop of lines 152-164 ended as `collapsed`
sanitise_step(collapsed, data, table_name, valid, do_validate) ==
    IF collapsed.err # "none" THEN Outcome(collapsed.err, data, collapsed.heap)
    ELSE expand_step(
           sanitise_loop(collapsed.heap, data[table_name], valid, 1, <<>>),
           data, table_name, valid, do_validate)

\* lines 151-164, for the fields `valid` of lines 140-149
collapse_step(hp, data, table_name, valid, collapse_to_other, cumulative_threshold, max_n_options, do_validate, tie) ==
    sanitise_step(
      IF collapse_to_other
         /\ (Truthy(cumulative_threshold) \/ Truthy(max_n_options))
      THEN collapse_loop(hp, data, data[table_name], valid, 1,
                         cumulative_threshold, max_n_options, tie)
      ELSE [err |-> "none", heap |-> hp],
      data, table_name, valid, do_validate)

\* lines 137-240, on self.data == `data` (the caller's dataset when inplace,
\* the copy of line 135 otherwise)
encode_body(hp, data, table_name, field_names, collapse_to_other, cumulative_threshold, max_n_options, do_validate, tie) ==
    collapse_step(hp, data, table_name,
                  valid_field_names(hp[data.data_dictionary].rows, table_name,
                                    field_names),
                  collapse_to_other, cumulative_threshold, max_n_options,
                  do_validate, tie)

\* a plausible slip: the copy of line 135 is not taken
one_hot_encode_uncopied(hp, data, table_name, field_names, collapse_to_other, cumulative_threshold, max_n_options, do_validate, inplace, tie) ==
    IF ~hasattr(table_name) THEN Outcome("none", data, hp)
    ELSE encode_body(hp, data, table_name, field_names, collapse_to_other,
                     cumulative_threshold, max_n_options, do_validate, tie)

\* Encoder.one_hot_encode, for an Encoder built with (data, validate, inplace)
one_hot_encode(hp, data, table_name, field_names, collapse_to_other, cumulative_threshold, max_n_options, do_validate, inplace, tie) ==
    IF ~hasattr(table_name) THEN Outcome("none", data, hp)
    ELSE IF inplace
    THEN encode_body(hp, data, table_name, field_names, collapse_to_other,
                     cumulative_threshold, max_n_options, do_validate, tie)
    ELSE LET copied == copy(hp, data, <<table_name, "data_dictionary">>)
         IN  IF copied.err # "none" THEN Outcome(copied.err, data, hp)
             ELSE encode_body(copied.heap, copied.data, table_name, field_names,
                              collapse_to_other, cumulative_threshold,
                              max_n_options, do_validate, tie)

----------------------------------------------------------------------------
(* The datasets the model starts from *)

\* field names
F == <<"f">>
G == <<"g">>
H == <<"h">>
N == <<"n">>
S == <<"s">>
Z == <<"z">>

\* the values a cell of the categorical field f can hold: "a", "A", "a__0"
\* and missing
FValues == {NA, <<"a">>, <<"A">>, <<"a", "_", "_", "0">>}

\* the values a cell of the categorical field g can hold: " b" and missing
GValues == {NA, <<" ", "b">>}

\* a row of the data dictionary as the Loader reads it
Row(field_name, field_type, table_name) ==
    [field_name |-> field_name,
     field_label |-> field_name,
     field_type |-> field_type,
     field_unit |-> NA,
     field_options |-> NA,
     field_skip_logic |-> NA,
     parent_field_name |-> NA,
     section |-> <<"s">> \o field_name,
     table_name |-> table_name,
     phase |-> <<"p">> \o field_name]

\* a column whose cells are "1", "2", ...
Counting(name) == [name |-> name, cells |-> [i \in 1..NRows |-> IntStr(i)]]

\* the shapes of dataset the model starts from: with the optional attributes;
\* without them and with a field of the data dictionary (g) that the table
\* lacks; and with a data dictionary that already names a one-hot column of f
Shapes == {"full", "required_only", "named_before"}

BaseRows ==
    <<Row(S, "freetext", "presentation"),
      Row(F, "categorical", "presentation"),
      Row(N, "numeric", "presentation"),
      Row(G, "categorical", "presentation"),
      Row(H, "categorical", "outcome")>>

InitRows(shape) ==
    IF shape = "named_before"
    THEN Append(BaseRows, Row(ohe_name(F, <<"a">>), "boolean", "outcome"))
    ELSE BaseRows

InitPresentation(shape, fcells, gcells) ==
    <<Counting(S), [name |-> F, cells |-> fcells], Counting(N)>>
      \o (IF shape = "required_only" THEN <<>>
          ELSE <<[name |-> G, cells |-> gcells]>>)

InitOutcome(shape) ==
    <<[name |-> H, cells |-> [i \in 1..NRows |-> <<"b">>]]>>
      \o (IF shape = "named_before"
          THEN <<[name |-> ohe_name(F, <<"a">>),
                  cells |-> [i \in 1..NRows |-> TrueCell]]>>
          ELSE <<>>)

\* the heap after IsaricData(metadata, data_dictionary, presentation, outcome,
\* daily, events) was constructed from freshly loaded parts
InitHeap(shape, fcells, gcells) ==
    <<Dict(0), Schema(InitRows(shape)),
      Table(InitPresentation(shape, fcells, gcells)),
      Table(InitOutcome(shape))>>
      \o (IF shape = "required_only" THEN <<>>
          ELSE <<Table(<<Counting(S)>>), Dict(0)>>)

InitData(shape) ==
    [metadata |-> 1, data_dictionary |-> 2, presentation |-> 3, outcome |-> 4,
     daily |-> IF shape = "required_only" THEN None ELSE 5,
     events |-> IF shape = "required_only" THEN None ELSE 6]

\* the value of op before any call
NoOp ==
    [name |-> "init", err |-> "none", table_names |-> NoneArg,
     attr |-> "none", mutations |-> 0,
     table_name |-> "none", field_names |-> NoneArg,
     collapse_to_other |-> FALSE, cumulative_threshold |-> NoNumber,
     max_n_options |-> NoNumber, validate |-> FALSE, inplace |-> FALSE,
     tie |-> "first_seen"]

Init ==
    /\ \E shape \in Shapes :
       \E fcells \in [1..NRows -> FValues] :
       \E gvalue \in GValues :
          /\ heap = InitHeap(shape, fcells, [i \in 1..NRows |-> gvalue])
          /\ d = InitData(shape)
    /\ validate(heap, d) = "ok"
    /\ r = NoData
    /\ op = NoOp
    /\ pre = [d |-> d, heap |-> heap]
    /\ loader = NoLoader
    /\ calls = <<>>
    /\ fn = "none"
    /\ arg = <<>>
    /\ ret = <<>>

----------------------------------------------------------------------------
(* The caller's operations on a dataset *)

\* the arguments the caller passes to copy()
CopyTableNames ==
    {NoneArg, <<"presentation">>, <<"presentation", "data_dictionary">>,
     <<"daily">>, <<"metadata">>}

\* d.copy(table_names)
Copy(table_names) ==
    /\ op.name = "init"
    /\ LET out == copy(heap, d, table_names)
       IN  /\ heap' = out.heap
           /\ r' = out.data
           /\ op' = [NoOp EXCEPT !.name = "copy", !.err = out.err,
                                 !.table_names = table_names]
    /\ pre' = [d |-> d, heap |-> heap]
    /\ UNCHANGED <<d, fn, arg, ret, loader, calls>>

\* what a mutation appends to a cell or a label
Mutated == <<"!">>

\* an in-place mutation of an object: a cell of a table, a label of the data
\* dictionary, an entry of a mapping
mutate(obj) ==
    IF obj.kind = "dict" THEN [obj EXCEPT !.items = obj.items + 1]
    ELSE IF obj.rows # <<>>
    THEN [obj EXCEPT !.rows[1].field_label = @ \o Mutated]
    ELSE [obj EXCEPT !.columns[1].cells[1] = @ \o Mutated]

\* the caller mutates, in place, the object behind attribute `attr` of the
\* copy that copy() returned
Mutate(attr) ==
    /\ op.name \in {"copy", "mutate"}
    /\ op.err = "none"
    /\ op.mutations < MaxMutations
    /\ r[attr] > 0
    /\ heap' = [heap EXCEPT ![r[attr]] = mutate(heap[r[attr]])]
    /\ op' = [op EXCEPT !.name = "mutate", !.attr = attr,
                        !.mutations = op.mutations + 1]
    /\ pre' = [d |-> d, heap |-> heap]
    /\ UNCHANGED <<d, r, fn, arg, ret, loader, calls>>

\* the arguments the caller passes to one_hot_encode
TableNames == {"presentation", "outcome", "nosuch"}
FieldNames == {NoneArg, <<G, F>>, <<N, F, Z>>}
Thresholds == {NoNumber, Number(0, 1), Number(1, 2), Number(3, 2)}
MaxNOptions == {NoNumber, Number(1, 1)}
Ties == {"first_seen", "last_seen"}

\* Encoder(d, validate, inplace).one_hot_encode(table_name, field_names,
\* collapse_to_other, cumulative_threshold, max_n_options)
\* for a table_name drawn from `table_names`
OneHotEncodeOf(table_names, defaulted) ==
    /\ op.name = "init"
    /\ \E table_name \in table_names :
       \E field_names \in FieldNames :
       \E collapse_to_other \in BOOLEAN :
       \E cumulative_threshold \in Thresholds :
       \E max_n_options \in MaxNOptions :
       \E do_validate \in BOOLEAN :
       \E inplace \in BOOLEAN :
       \E tie \in Ties :
          \* the arguments that are ignored without collapse_to_other are
          \* left at their defaults
          /\ ~collapse_to_other =>
                /\ cumulative_threshold = NoNumber
                /\ max_n_options = NoNumber
          \* for the table names in `defaulted` the other arguments are
          \* left at their defaults
          /\ table_name \in defaulted =>
                /\ field_names = NoneArg
                /\ ~collapse_to_other
          \* the order of equally frequent categories is only drawn when
          \* _collapse_options gets as far as ranking them
          /\ tie # "first_seen" =>
                /\ collapse_to_other
                /\ ~cumulative_threshold.none
                /\ cumulative_threshold.num <= cumulative_threshold.den
                /\ Truthy(cumulative_threshold) \/ Truthy(max_n_options)
          /\ \E out \in {one_hot_encode(heap, d, table_name, field_names,
                                          collapse_to_other,
                                          cumulative_threshold, max_n_options,
                                          do_validate, inplace, tie)} :
                 /\ heap' = out.heap
                 /\ d' = IF inplace THEN out.data ELSE d
                 /\ r' = IF out.err = "none" THEN out.data ELSE NoData
                 /\ op' = [NoOp EXCEPT !.name = "one_hot_encode",
                              !.err = out.err,
                              !.table_name = table_name,
                              !.field_names = field_names,
                              !.collapse_to_other = collapse_to_other,
                              !.cumulative_threshold = cumulative_threshold,
                              !.max_n_options = max_n_options,
                              !.validate = do_validate, !.inplace = inplace,
                              !.tie = tie]
    /\ pre' = [d |-> d, heap |-> heap]
    /\ UNCHANGED <<fn, arg, ret, loader, calls>>

\* one_hot_encode on a table of the dataset, or on a name that is no
\* attribute of it: such a call returns at line 132 before it reads any
\* other argument, which are left at their defaults
OneHotEncode == OneHotEncodeOf(TableNames, {"nosuch"})

Next ==
    \/ \E table_names \in CopyTableNames : Copy(table_names)
    \/ \E attr \in {Attrs[i] : i \in 1..Len(Attrs)} : Mutate(attr)
    \/ OneHotEncode

Spec == Init /\ [][Next]_vars

----------------------------------------------------------------------------
(* one_hot_encode called a second time *)

\* Encoder(r, validate, inplace).one_hot_encode(...) with the arguments of the
\* call that returned the dataset r
OneHotEncodeAgain ==
    /\ op.name = "one_hot_encode"
    /\ op.err = "none"
    /\ \E out \in {one_hot_encode(heap, r, op.table_name, op.field_names,
                                    op.collapse_to_other,
                                    op.cumulative_threshold, op.max_n_options,
                                    op.validate, op.inplace, op.tie)} :
           /\ heap' = out.heap
           /\ d' = IF op.inplace THEN out.data ELSE d
           /\ r' = IF out.err = "none" THEN out.data ELSE NoData
           /\ op' = [op EXCEPT !.name = "one_hot_encode_again",
                               !.err = out.err]
    /\ pre' = [d |-> r, heap |-> heap]
    /\ UNCHANGED <<fn, arg, ret, loader, calls>>

NextAgain ==
    \/ OneHotEncode
    \/ OneHotEncodeAgain

SpecAgain == Init /\ [][NextAgain]_vars

----------------------------------------------------------------------------
(* one_hot_encode called with the lists of field names a caller can pass *)

\* field_names: None, the empty list, and lists that hold a categorical
\* field of the table (f, g or h), a numeric one (n), one of the other
\* table, and a name the data dictionary does not hold (z)
TargetFieldNames == {NoneArg, <<>>, <<F>>, <<N>>, <<Z>>, <<H>>, <<G, F>>, <<N, F, Z>>, <<H, F, N>>}

\* Encoder(d, inplace=inplace).one_hot_encode(table_name, field_names), and
\* the same with collapse_to_other=True, cumulative_threshold=0.5
EncodeFields ==
    /\ op.name = "init"
    /\ \E table_name \in {"presentation", "outcome"} :
       \E field_names \in TargetFieldNames :
       \E collapse_to_other \in BOOLEAN :
       \E inplace \in BOOLEAN :
       \E cumulative_threshold \in {IF collapse_to_other THEN Number(1, 2) ELSE NoNumber} :
       \E out \in {one_hot_encode(heap, d, table_name, field_names,
                                   collapse_to_other, cumulative_threshold,
                                   NoNumber, FALSE, inplace, "first_seen")} :
          /\ heap' = out.heap
          /\ d' = IF inplace THEN out.data ELSE d
          /\ r' = IF out.err = "none" THEN out.data ELSE NoData
          /\ op' = [NoOp EXCEPT !.name = "one_hot_encode",
                                !.err = out.err,
                                !.table_name = table_name,
                                !.field_names = field_names,
                                !.collapse_to_other = collapse_to_other,
                                !.cumulative_threshold = cumulative_threshold,
                                !.inplace = inplace]
    /\ pre' = [d |-> d, heap |-> heap]
    /\ UNCHANGED <<fn, arg, ret, loader, calls>>

NextTargets == EncodeFields

SpecTargets == Init /\ [][NextTargets]_vars

----------------------------------------------------------------------------
(* one_hot_encode called with a table_name that names no table *)

\* names that are no attribute of the dataset ("nosuch"), the attribute that
\* holds a dict ("metadata") and an optional table ("daily"), which is None
\* in a dataset built from the required parts only
NoTableNames == {"nosuch", "metadata", "daily"}

EncodeNoTable == OneHotEncodeOf(NoTableNames, {})

NextNoTable == EncodeNoTable

SpecNoTable == Init /\ [][NextNoTable]_vars

----------------------------------------------------------------------------
(* Construction and validation of an IsaricData from arbitrary parts *)

\* number of rows of the data dictionary handed to the constructor
MaxNames == 2

\* the field names tried: "f", "f_1", "A", "f g", "1f", "_f", "f!" and ""
TriedNames ==
    <<<<"f">>, <<"f", "_", "1">>, <<"A">>, <<"f", " ", "g">>, <<"1", "f">>,
      <<"_", "f">>, <<"f", "!">>, <<>>>>

\* the heap the constructor's arguments are taken from: a dict, a data
\* dictionary with the given field names, and two tables
PartsHeap(names) ==
    <<Dict(0),
      Schema([i \in 1..Len(names) |-> Row(names[i], "freetext", "presentation")]),
      Table(<<Counting(S)>>), Table(<<Counting(S)>>)>>

InitValidate ==
    /\ \E n \in 1..MaxNames : \E tried \in [1..n -> 1..Len(TriedNames)] :
          heap = PartsHeap([i \in 1..n |-> TriedNames[tried[i]]])
    /\ \E m \in {1, None, 3} : \E dd \in {2, None, 1} :
       \E p \in {3, None} : \E o \in {4, None} :
          d = [metadata |-> m, data_dictionary |-> dd, presentation |-> p,
               outcome |-> o, daily |-> None, events |-> None]
    /\ r = NoData
    /\ op = NoOp
    /\ pre = [d |-> d, heap |-> heap]
    /\ loader = NoLoader
    /\ calls = <<>>
    /\ fn = "none"
    /\ arg = <<>>
    /\ ret = <<>>

\* the exception a check raised, "none" when it passed
Raised(checked) == IF checked = "ok" THEN "none" ELSE checked

\* IsaricData(...): __post_init__ runs validate
PostInit ==
    /\ op.name = "init"
    /\ op' = [NoOp EXCEPT !.name = "__post_init__",
                          !.err = Raised(validate(heap, d))]
    /\ UNCHANGED <<heap, d, r, pre, fn, arg, ret, loader, calls>>

\* the caller rebinds an attribute of a constructed dataset to None
SetAttrNone(attr) ==
    /\ op.name = "__post_init__"
    /\ op.err = "none"
    /\ d' = [d EXCEPT ![attr] = None]
    /\ op' = [op EXCEPT !.name = "setattr", !.attr = attr]
    /\ UNCHANGED <<heap, r, pre, fn, arg, ret, loader, calls>>

\* d.validate(), re-invoked on a dataset that was constructed
Validate ==
    /\ op.name \in {"__post_init__", "setattr"}
    /\ op.err = "none"
    /\ op' = [op EXCEPT !.name = "validate", !.err = Raised(validate(heap, d))]
    /\ UNCHANGED <<heap, d, r, pre, fn, arg, ret, loader, calls>>

NextValidate ==
    \/ PostInit
    \/ \E attr \in {"metadata", "data_dictionary", "presentation", "outcome"} :
          SetAttrNone(attr)
    \/ Validate

SpecValidate == InitValidate /\ [][NextValidate]_vars

----------------------------------------------------------------------------
(* sanitise_field applied to arbitrary fields *)

\* the values of the field handed to sanitise_field: "a", "A", " a", "a b",
\* "a__0", "a__1", "a!" and "b"
TriedValues ==
    {<<"a">>, <<"A">>, <<" ", "a">>, <<"a", " ", "b">>,
     <<"a", "_", "_", "0">>, <<"a", "_", "_", "1">>, <<"a", "!">>, <<"b">>}

InitSanitise ==
    /\ \E n \in 0..MaxFieldLen : arg \in [1..n -> TriedValues]
    /\ fn = "none"
    /\ ret = <<>>
    /\ heap = <<>>
    /\ d = NoData
    /\ r = NoData
    /\ op = NoOp
    /\ pre = [d |-> NoData, heap |-> <<>>]
    /\ loader = NoLoader
    /\ calls = <<>>

\* sanitised_field, mapping = sanitise_field(arg)
SanitiseField ==
    /\ fn = "none"
    /\ fn' = "sanitise_field"
    /\ ret' = sanitise_field(arg)
    /\ UNCHANGED <<arg, heap, d, r, op, pre, loader, calls>>

NextSanitise == SanitiseField

SpecSanitise == InitSanitise /\ [][NextSanitise]_vars

----------------------------------------------------------------------------
(* sanitise_string applied to arbitrary strings *)

\* the characters of the strings tried: a lowercase and an uppercase letter,
\* a digit, the underscore, whitespace and punctuation
Chars == {"a", "A", "0", "_", " ", "!"}

InitString ==
    /\ \E n \in 0..MaxStrLen : arg \in [1..n -> Chars]
    /\ fn = "none"
    /\ ret = <<>>
    /\ heap = <<>>
    /\ d = NoData
    /\ r = NoData
    /\ op = NoOp
    /\ pre = [d |-> NoData, heap |-> <<>>]
    /\ loader = NoLoader
    /\ calls = <<>>

\* s1 = sanitise_string(arg); ret collects the results of the applications
SanitiseString ==
    /\ fn = "none"
    /\ fn' = "sanitise_string"
    /\ ret' = <<sanitise_string(arg)>>
    /\ UNCHANGED <<arg, heap, d, r, op, pre, loader, calls>>

\* s2 = sanitise_string(s1)
SanitiseStringAgain ==
    /\ fn = "sanitise_string"
    /\ Len(ret) = 1
    /\ ret' = Append(ret, sanitise_string(ret[1]))
    /\ UNCHANGED <<fn, arg, heap, d, r, op, pre, loader, calls>>

NextString ==
    \/ SanitiseString
    \/ SanitiseStringAgain

SpecString == InitString /\ [][NextString]_vars

----------------------------------------------------------------------------
(* Encoder._collapse_options applied to arbitrary fields *)

\* the cells of the field: missing, or one of three categories
CollapseValues == {NA, <<"a">>, <<"b">>, <<"c">>}

\* cumulative_threshold: None, 0, 0.5, 1, 1.5 and -0.5
CollapseThresholds ==
    {NoNumber, Number(0, 1), Number(1, 2), Number(1, 1), Number(3, 2),
     Number(-1, 2)}

\* max_n_options: None, 0, 1 and 2
CollapseMaxNOptions == {NoNumber, Number(0, 1), Number(1, 1), Number(2, 1)}

InitCollapse ==
    /\ \E n \in 0..MaxCollapseLen :
       \E field \in [1..n -> CollapseValues] :
       \E cumulative_threshold \in CollapseThresholds :
       \E max_n_options \in CollapseMaxNOptions :
       \E tie \in Ties :
          arg = [field |-> field, cumulative_threshold |-> cumulative_threshold,
                 max_n_options |-> max_n_options, tie |-> tie]
    /\ fn = "none"
    /\ ret = <<>>
    /\ heap = <<>>
    /\ d = NoData
    /\ r = NoData
    /\ op = NoOp
    /\ pre = [d |-> NoData, heap |-> <<>>]
    /\ loader = NoLoader
    /\ calls = <<>>

\* ret = self._collapse_options(field, cumulative_threshold, max_n_options,
\* replacement_string="other")
CollapseOptions ==
    /\ fn = "none"
    /\ fn' = "_collapse_options"
    /\ ret' = _collapse_options(arg.field, arg.cumulative_threshold,
                                arg.max_n_options, other_string, arg.tie)
    /\ UNCHANGED <<arg, heap, d, r, op, pre, loader, calls>>

NextCollapse == CollapseOptions

SpecCollapse == InitCollapse /\ [][NextCollapse]_vars

----------------------------------------------------------------------------
(* loader.io.Loader *)

\* what metadata.json holds when load_metadata reads it: no such file, text
\* that is not JSON, the JSON values null and [], an object whose "path" is
\* another directory, an object whose files.data_dictionary.filename is not
\* a string, and a well-formed object
MetadataFiles ==
    {"absent", "invalid", "null", "list", "wrong_path", "bad_filename", "good"}

\* whether the .csv file a call reads exists
CsvFiles == {"absent", "present"}

\* the names handed to load_df: one that metadata["files"] lists and one it
\* does not
DfNames == {"presentation", "fakefile"}

\* Loader.__init__, lines 67-68
FreshLoader == [metadata |-> "None", data_dictionary |-> "None"]

\* what self.metadata holds after line 86 assigned json.load(...) of the file
Parsed(file) == IF file = "null" THEN "None" ELSE file

\* the outcome of a call on the Loader: the exception raised ("none" if it
\* returned) and the Loader afterwards
Called(err, ldr) == [err |-> err, loader |-> ldr]

\* Loader.load_metadata: line 86 binds self.metadata before the "path" of
\* the metadata is checked
load_metadata(ldr, file) ==
    IF file = "absent" THEN Called("FileNotFoundError", ldr)
    ELSE IF file = "invalid" THEN Called("JSONDecodeError", ldr)
    ELSE IF file \in {"null", "list"}
    THEN \* line 90, self.metadata.get on None or on a list
         Called("AttributeError", [ldr EXCEPT !.metadata = Parsed(file)])
    ELSE IF file = "wrong_path"
    THEN Called("ValueError", [ldr EXCEPT !.metadata = Parsed(file)])
    ELSE Called("none", [ldr EXCEPT !.metadata = Parsed(file)])

\* a plausible slip: the check of lines 111-114 is left out, so that the
\* call fails on None.get
load_data_dictionary_unchecked(ldr, csv) ==
    IF ldr.metadata \in {"None", "list"} THEN Called("AttributeError", ldr)
    ELSE IF ldr.metadata = "bad_filename" THEN Called("TypeError", ldr)
    ELSE IF csv = "absent" THEN Called("FileNotFoundError", ldr)
    ELSE Called("none", [ldr EXCEPT !.data_dictionary = "DataFrame"])

\* Loader.load_data_dictionary
load_data_dictionary(ldr, csv) ==
    IF ldr.metadata = "None" THEN Called("ValueError", ldr)
    ELSE IF ldr.metadata = "list" THEN Called("AttributeError", ldr)
    ELSE IF ldr.metadata = "bad_filename" THEN Called("TypeError", ldr)
    ELSE IF csv = "absent" THEN Called("FileNotFoundError", ldr)
    ELSE Called("none", [ldr EXCEPT !.data_dictionary = "DataFrame"])

\* Loader.load_df: returns None (no exception) for a name the metadata
\* does not list; the Loader is left as it was
load_df(ldr, name, csv) ==
    IF ldr.metadata = "None" THEN Called("ValueError", ldr)
    ELSE IF ldr.data_dictionary = "None" THEN Called("ValueError", ldr)
    ELSE IF ldr.metadata = "list" THEN Called("AttributeError", ldr)
    ELSE IF name = "fakefile" THEN Called("none", ldr)
    ELSE IF csv = "absent" THEN Called("FileNotFoundError", ldr)
    ELSE Called("none", ldr)

\* a call and its outcome, as recorded in `calls`
Call(method, err) == [method |-> method, err |-> err]

InitLoader ==
    /\ loader = FreshLoader
    /\ calls = <<>>
    /\ fn = "none"
    /\ arg = <<>>
    /\ ret = <<>>
    /\ heap = <<>>
    /\ d = NoData
    /\ r = NoData
    /\ op = NoOp
    /\ pre = [d |-> NoData, heap |-> <<>>]

\* loader.load_metadata(), with metadata.json as `file` at that moment
LoadMetadata(file) ==
    /\ Len(calls) < MaxCalls
    /\ \E out \in {load_metadata(loader, file)} :
          /\ loader' = out.loader
          /\ calls' = Append(calls, Call("load_metadata", out.err))
    /\ UNCHANGED <<heap, d, r, op, pre, fn, arg, ret>>

\* loader.load_data_dictionary()
LoadDataDictionary(csv) ==
    /\ Len(calls) < MaxCalls
    /\ \E out \in {load_data_dictionary(loader, csv)} :
          /\ loader' = out.loader
          /\ calls' = Append(calls, Call("load_data_dictionary", out.err))
    /\ UNCHANGED <<heap, d, r, op, pre, fn, arg, ret>>

\* loader.load_df(name)
LoadDf(name, csv) ==
    /\ Len(calls) < MaxCalls
    /\ \E out \in {load_df(loader, name, csv)} :
          /\ loader' = out.loader
          /\ calls' = Append(calls, Call("load_df", out.err))
    /\ UNCHANGED <<heap, d, r, op, pre, fn, arg, ret>>

NextLoader ==
    \/ \E file \in MetadataFiles : LoadMetadata(file)
    \/ \E csv \in CsvFiles : LoadDataDictionary(csv)
    \/ \E name \in DfNames : \E csv \in CsvFiles : LoadDf(name, csv)

SpecLoader == InitLoader /\ [][NextLoader]_vars

----------------------------------------------------------------------------
(* Properties of IsaricData.copy *)

\* C1: copy() called with table_names=None completes without error and
\* returns a dataset whose tables and mappings are all independent of the
\* source: a mutation made through the copy leaves the source as it was.
C1_CopyAllIsDeep ==
    /\ (op.name = "copy" /\ op.table_names = NoneArg) => op.err = "none"
    /\ (op.name = "mutate" /\ op.table_names = NoneArg)
          => Deref(heap, d) = Deref(pre.heap, d)

\* C2: after c = d.copy(table_names=["presentation"]), a mutation made
\* through c.presentation or c.metadata leaves d.presentation and d.metadata
\* as they were, while c.outcome is the very table d.outcome is and a
\* mutation made through it shows in d.outcome.
C2_CopyNamedTable ==
    (op.name \in {"copy", "mutate"} /\ op.table_names = <<"presentation">>) =>
      /\ op.err = "none"
      /\ r.presentation # d.presentation
      /\ r.metadata # d.metadata
      /\ r.outcome = d.outcome
      /\ op.name = "mutate" =>
            /\ heap[d.presentation] = pre.heap[d.presentation]
            /\ heap[d.metadata] = pre.heap[d.metadata]
            /\ op.attr = "outcome" => heap[d.outcome] # pre.heap[d.outcome]

\* C2 happens: the copy's presentation was mutated after copy(["presentation"])
C2_Witness ==
    /\ op.name = "mutate"
    /\ op.table_names = <<"presentation">>
    /\ op.attr = "presentation"
    /\ heap[r.presentation] # pre.heap[r.presentation]

----------------------------------------------------------------------------
(* Properties of Encoder.one_hot_encode *)

\* the last call was one_hot_encode on an attribute that holds a table
Encoded ==
    /\ op.name = "one_hot_encode"
    /\ op.table_name \in {"presentation", "outcome"}

\* the caller's table and data dictionary before the call, and the ones of
\* the returned dataset
PreColumns == pre.heap[pre.d[op.table_name]].columns
PreRows == pre.heap[pre.d.data_dictionary].rows
ResultColumns == heap[r[op.table_name]].columns
ResultRows == heap[r.data_dictionary].rows

\* the fields the call encodes
EncodedFields == valid_field_names(PreRows, op.table_name, op.field_names)

\* the names of a sequence of columns or of rows
ColumnNames(columns) == [i \in 1..Len(columns) |-> columns[i].name]
RowNames(rows) == [i \in 1..Len(rows) |-> rows[i].field_name]

\* no element of the sequence occurs twice
Unique(xs) == Cardinality(Range(xs)) = Len(xs)

\* C3: with inplace=False the dataset the caller passed in is as it was when
\* the call ends: the same table object with the same columns and values,
\* the same data dictionary with the same rows; when the call returns, the
\* returned dataset holds another table and another data dictionary.
C3_NotInplaceLeavesCaller ==
    (Encoded /\ ~op.inplace) =>
      /\ d = pre.d
      /\ heap[d[op.table_name]] = pre.heap[d[op.table_name]]
      /\ heap[d.data_dictionary] = pre.heap[d.data_dictionary]
      /\ op.err = "none" =>
            /\ r[op.table_name] # d[op.table_name]
            /\ r.data_dictionary # d.data_dictionary

\* C3 happens: a call with inplace=False returned the expansion of f while
\* the caller's table still holds the un-sanitised "A"
C3_Witness ==
    /\ Encoded /\ ~op.inplace /\ op.err = "none"
    /\ op.table_name = "presentation"
    /\ <<"A">> \in Range(Column(heap[d.presentation].columns, F))
    /\ HasColumn(ResultColumns, ohe_name(F, <<"a">>))
    /\ Len(ResultRows) > Len(heap[d.data_dictionary].rows)

\* C4: a call that raises leaves the caller's dataset as it was, with
\* inplace=False and with inplace=True: the same objects with the same
\* contents.
C4_RaiseLeavesCaller ==
    (Encoded /\ op.err # "none") =>
      /\ d = pre.d
      /\ Deref(heap, d) = Deref(pre.heap, pre.d)

\* the rows of the returned data dictionary that were derived from a field
DerivedRows(field_name) ==
    {row \in Range(ResultRows) : row.parent_field_name = field_name}

\* C5: in the returned table, for every encoded field and every row: where
\* the field was missing every column derived from the field is missing;
\* where it had a value, the column of that value (of "other", when the value
\* was collapsed) is True and every other column derived from the field is
\* False.
C5_MissingStaysMissing ==
    (Encoded /\ op.err = "none") =>
      \A field_name \in Range(EncodedFields) : \A i \in 1..NRows :
        LET value == Column(PreColumns, field_name)[i]
            cell(row) == Column(ResultColumns, row.field_name)[i]
        IN  /\ \A row \in DerivedRows(field_name) :
                  HasColumn(ResultColumns, row.field_name)
            /\ value = NA =>
                  \A row \in DerivedRows(field_name) : cell(row) = NA
            /\ value # NA =>
                  \E hit \in DerivedRows(field_name) :
                     /\ hit.field_label = value
                           \/ (op.collapse_to_other /\ hit.field_label = other_string)
                     /\ cell(hit) = TrueCell
                     /\ \A row \in DerivedRows(field_name) \ {hit} :
                           cell(row) = FalseCell

\* C5 happens: a field with a value in one row and missing in another was
\* encoded
C5_Witness ==
    /\ Encoded /\ op.err = "none"
    /\ F \in Range(EncodedFields)
    /\ \E i, j \in 1..NRows :
          /\ Column(PreColumns, F)[i] = NA
          /\ Column(PreColumns, F)[j] = <<"A">>
          /\ Column(ResultColumns, ohe_name(F, <<"a">>))[i] = NA
          /\ Column(ResultColumns, ohe_name(F, <<"a">>))[j] = TrueCell

\* the one-hot columns of a field that the call added to the table
NewColumns(field_name) ==
    {name \in Range(ColumnNames(ResultColumns)) :
        /\ name \notin Range(ColumnNames(PreColumns))
        /\ Len(name) >= Len(field_name) + 3
        /\ SubSeq(name, 1, Len(field_name) + 3) = field_name \o prefix_sep}

\* C6: for every encoded field the returned data dictionary holds exactly N
\* rows derived from it, N being the number of one-hot columns the field was
\* expanded into, and they stand right after the field's own row; without
\* the derived rows the data dictionary is the one before the call.
C6_InsertsAfterParent ==
    (Encoded /\ op.err = "none") =>
      /\ SelectSeq(ResultRows,
                   LAMBDA row : row.parent_field_name \notin Range(EncodedFields))
            = PreRows
      /\ \A field_name \in Range(EncodedFields) :
            LET at == first_idx(ResultRows, field_name)
                n == Cardinality(NewColumns(field_name))
            IN  \A j \in 1..Len(ResultRows) :
                   (ResultRows[j].parent_field_name = field_name)
                      <=> (at < j /\ j <= at + n)

\* C6 happens: two fields, with another row between them, were encoded in
\* one call
C6_Witness ==
    /\ Encoded /\ op.err = "none"
    /\ EncodedFields = <<F, G>>
    /\ Len(ResultRows) >= Len(PreRows) + 3

\* C7: when every field_name of the data dictionary is unique and in normal
\* form before the call, every field_name of the returned data dictionary is
\* unique and in normal form and no two columns of the returned table have
\* the same name.
C7_NamesStayUnique ==
    (/\ Encoded /\ op.err = "none"
     /\ Unique(RowNames(PreRows))
     /\ \A name \in Range(RowNames(PreRows)) : name = sanitise_string(name))
      =>
      /\ Unique(RowNames(ResultRows))
      /\ \A name \in Range(RowNames(ResultRows)) : name = sanitise_string(name)
      /\ Unique(ColumnNames(ResultColumns))

----------------------------------------------------------------------------
(* Properties of IsaricData.validate *)

\* validate ran last, on construction or re-invoked
Validated == op.name \in {"__post_init__", "validate"}

\* a field name in normal form that starts with a letter
WellFormed(name) ==
    /\ name = sanitise_string(name)
    /\ name # <<>>
    /\ IsAlpha(name[1])

\* the field names of the data dictionary validate looked at
ValidatedNames == Range(RowNames(heap[d.data_dictionary].rows))

\* the four parts have the container type validate asks for
MetadataOk == IsDict(heap, d.metadata)
DictionaryOk == IsDataFrame(heap, d.data_dictionary)
TablesOk == IsDataFrame(heap, d.presentation) /\ IsDataFrame(heap, d.outcome)

\* C8 as stated: validate raises TypeError whenever metadata is not a
\* mapping or the data dictionary, presentation or outcome is not a table,
\* and returns when all four are right and every field_name is well formed.
C8_TypeErrorWhenever ==
    Validated =>
      /\ (~MetadataOk \/ ~DictionaryOk \/ ~TablesOk) => op.err = "TypeError"
      /\ (/\ MetadataOk /\ DictionaryOk /\ TablesOk
          /\ \A name \in ValidatedNames : WellFormed(name)) => op.err = "none"

\* C8 amended: validate raises TypeError whenever metadata is not a mapping
\* or the data dictionary is not a table, and, when those two are right and
\* every field_name is well formed, whenever presentation or outcome is not
\* a table; it returns when all four are right and every field_name is well
\* formed.
C8_TypeErrorInOrder ==
    Validated =>
      /\ (~MetadataOk \/ ~DictionaryOk) => op.err = "TypeError"
      /\ (/\ MetadataOk /\ DictionaryOk /\ ~TablesOk
          /\ \A name \in ValidatedNames : WellFormed(name))
            => op.err = "TypeError"
      /\ (/\ MetadataOk /\ DictionaryOk /\ TablesOk
          /\ \A name \in ValidatedNames : WellFormed(name)) => op.err = "none"

\* C8 happens: a dataset with well-formed field names and no outcome table
\* was re-validated, and raised TypeError
C8_Witness ==
    /\ op.name = "validate"
    /\ MetadataOk /\ DictionaryOk
    /\ \A name \in ValidatedNames : WellFormed(name)
    /\ d.outcome = None
    /\ op.err = "TypeError"

\* C9: validate raises ValueError, and nothing else, whenever metadata and
\* the data dictionary have the right type and some field_name is not in
\* normal form or does not start with a letter.
C9_ValueErrorForBadName ==
    (/\ Validated /\ MetadataOk /\ DictionaryOk
     /\ \E name \in ValidatedNames : ~WellFormed(name))
      => op.err = "ValueError"

----------------------------------------------------------------------------
(* Properties of sanitise_field *)

\* C10: the keys of the mapping sanitise_field returns are exactly the
\* distinct values of the field, and no two keys are mapped to the same
\* sanitised string.
C10_MappingInjective ==
    fn = "sanitise_field" =>
      /\ {ret.mapping[k].orig : k \in 1..Len(ret.mapping)} = Range(arg)
      /\ Len(ret.mapping) = Cardinality(Range(arg))
      /\ \A j, k \in 1..Len(ret.mapping) :
            j # k => ret.mapping[j].clean # ret.mapping[k].clean

----------------------------------------------------------------------------
(* Properties of sanitise_string *)

\* C11: sanitise_string returns, for every string, a string of characters in
\* [0-9a-z_] only, and applying it to its own result returns that result.
C11_SanitiseStringIdempotent ==
    fn = "sanitise_string" =>
      /\ \A k \in 1..Len(ret) : \A i \in 1..Len(ret[k]) : IsClean(ret[k][i])
      /\ Len(ret) = 2 => ret[2] = ret[1]

\* C11 happens: "A !" became "a_" and sanitising "a_" again returned "a_"
C11_Witness ==
    /\ fn = "sanitise_string"
    /\ arg = <<"A", " ", "!">>
    /\ ret = <<<<"a", "_">>, <<"a", "_">>>>

\* s contains sub as a contiguous substring
Contains(s, sub) ==
    \E i \in 1..(Len(s) - Len(sub) + 1) : SubSeq(s, i, i + Len(sub) - 1) = sub

\* C20: the separator "___" of the one-hot column names never occurs in
\* sanitise_string(x), for every string x.
C20_SeparatorNeverInName ==
    fn = "sanitise_string" =>
      \A k \in 1..Len(ret) : ~Contains(ret[k], prefix_sep)
----------------------------------------------------------------------------
(* Properties of sanitise_field on sanitised values *)

\* C18: for a field in which every value v equals sanitise_string(v),
\* sanitise_field returns the same sequence of values and a mapping that
\* sends every value to itself.
C18_SanitisedFieldUnchanged ==
    (/\ fn = "sanitise_field"
     /\ \A i \in 1..Len(arg) : sanitise_string(arg[i]) = arg[i]) =>
      /\ ret.field = arg
      /\ \A m \in 1..Len(ret.mapping) :
            ret.mapping[m].clean = ret.mapping[m].orig
----------------------------------------------------------------------------
(* Properties of Encoder._collapse_options *)

\* the last call was _collapse_options
Collapsed == fn = "_collapse_options"

\* the categories of a field, the missing cells counted as one of them
Categories(field) == Range(fillna(field, nan_string))

\* the rankings of the categories by descending frequency: every order in
\* which no category stands before a more frequent one
Rankings(field) ==
    LET filled == fillna(field, nan_string)
        n == Cardinality(Categories(field))
    IN  {rk \in [1..n -> Categories(field)] :
           /\ \A i, j \in 1..n : i # j => rk[i] # rk[j]
           /\ \A i \in 1..(n - 1) :
                 CountOf(filled, rk[i]) >= CountOf(filled, rk[i + 1])}

\* the rank of the category of a cell
RankOf(rk, cell) ==
    CHOOSE k \in 1..Len(rk) : rk[k] = (IF cell = NA THEN nan_string ELSE cell)

\* the share of the categories ranked strictly before rank k exceeds t
ShareBeforeExceeds(field, rk, k, t) ==
    Cardinality({i \in 1..Len(field) : RankOf(rk, field[i]) < k}) * t.den
        > t.num * Len(field)

\* the field in which the cells picked by `replaced` hold "other" and the
\* others are as they were
ReplacedWhere(field, replaced(_)) ==
    [i \in 1..Len(field) |->
        IF field[i] # NA /\ replaced(field[i]) THEN other_string ELSE field[i]]

\* C12: with cumulative_threshold=0 and no max_n_options, every category but
\* the single most frequent one is replaced by "other"; the most frequent
\* category and the missing values are left as they were.
C12_ThresholdZeroKeepsOne ==
    (/\ Collapsed
     /\ arg.cumulative_threshold = Number(0, 1)
     /\ arg.max_n_options = NoNumber) =>
      /\ ret.err = "none"
      /\ \E rk \in Rankings(arg.field) :
            ret.field = ReplacedWhere(arg.field,
                                      LAMBDA cell : RankOf(rk, cell) > 1)

\* C13: with max_n_options = n >= 1 and cumulative_threshold None the call
\* completes without error, keeps the n+1 most frequent categories and
\* replaces the values of every less frequent category.
C13_MaxNOptionsAlone ==
    (/\ Collapsed
     /\ arg.cumulative_threshold = NoNumber
     /\ ~arg.max_n_options.none
     /\ arg.max_n_options.num >= 1) =>
      /\ ret.err = "none"
      /\ \E rk \in Rankings(arg.field) :
            ret.field = ReplacedWhere(arg.field,
                          LAMBDA cell :
                            RankOf(rk, cell) > arg.max_n_options.num + 1)

\* C14: every position that is missing in the field handed to
\* _collapse_options is missing in the field it returns, for every
\* threshold and max_n_options.
C14_MissingKept ==
    (Collapsed /\ ret.err = "none") =>
      /\ Len(ret.field) = Len(arg.field)
      /\ \A i \in 1..Len(arg.field) :
            arg.field[i] = NA => ret.field[i] = NA

\* C14 happens: in ["a", "a", missing] with threshold 0.5 the missing
\* category is ranked after a share of 2/3, among those to be replaced, and
\* the missing cell is still missing
C14_Witness ==
    /\ Collapsed
    /\ arg.field = <<<<"a">>, <<"a">>, NA>>
    /\ arg.cumulative_threshold = Number(1, 2)
    /\ ret.err = "none"
    /\ ret.field = arg.field

----------------------------------------------------------------------------
(* Properties of one_hot_encode on a name that is no table *)

\* table_name named a table of the dataset when the last call started
NamedTable ==
    /\ op.table_name \in {"presentation", "outcome", "daily"}
    /\ IsDataFrame(pre.heap, pre.d[op.table_name])

\* C15: when table_name does not name a table of the dataset,
\* one_hot_encode returns the dataset unchanged without raising, whatever
\* the other arguments are: no table, no data dictionary row and no
\* metadata differs from before the call.
C15_NoTableIsNoOp ==
    (op.name = "one_hot_encode" /\ ~NamedTable) =>
      /\ op.err = "none"
      /\ d = pre.d
      /\ Deref(heap, d) = Deref(pre.heap, pre.d)
      /\ Deref(heap, r) = Deref(pre.heap, pre.d)
----------------------------------------------------------------------------
(* Properties of the Loader *)

\* the last call on the Loader
LastCall == calls[Len(calls)]

\* C16: on a fresh Loader metadata and data_dictionary are unset;
\* load_data_dictionary raises ValueError as long as the Loader holds no
\* metadata and load_df raises ValueError as long as it holds no metadata
\* or no data dictionary, over every sequence of calls; after a
\* load_metadata that returned followed by a load_data_dictionary that
\* returned, load_df does not raise ValueError.
C16_LoadOrder ==
    /\ calls = <<>> => loader = FreshLoader
    /\ (\A k \in 1..Len(calls) : calls[k].method # "load_metadata")
          => loader = FreshLoader
    /\ calls # <<>> =>
          /\ (LastCall.method = "load_data_dictionary"
               /\ loader.metadata = "None") => LastCall.err = "ValueError"
          /\ (LastCall.method = "load_df"
               /\ (loader.metadata = "None"
                   \/ loader.data_dictionary = "None"))
                => LastCall.err = "ValueError"
    /\ \A k \in 3..Len(calls) :
          (/\ calls[k - 2] = Call("load_metadata", "none")
           /\ calls[k - 1] = Call("load_data_dictionary", "none")
           /\ calls[k].method = "load_df") => calls[k].err # "ValueError"

\* C16 happens: load_metadata, load_data_dictionary and load_df were called
\* in this order and each returned
C16_Witness ==
    /\ Len(calls) = 3
    /\ calls[1] = Call("load_metadata", "none")
    /\ calls[2] = Call("load_data_dictionary", "none")
    /\ calls[3] = Call("load_df", "none")
    /\ loader = [metadata |-> "good", data_dictionary |-> "DataFrame"]
----------------------------------------------------------------------------
(* Properties of a second one_hot_encode *)

\* the dataset handed to the last call holds a field that an earlier call
\* expanded: a row of its data dictionary names a parent field
FirstExpanded ==
    \E i \in 1..Len(PreRows) : PreRows[i].parent_field_name # NA

\* C17: one_hot_encode run a second time with the same arguments on the
\* dataset the first run returned, in which a field was expanded, completes
\* without error and returns a table and a data dictionary equal to those
\* of the first run.
C17_SecondRunIsNoOp ==
    (op.name = "one_hot_encode_again" /\ FirstExpanded) =>
      /\ op.err = "none"
      /\ Deref(heap, r)[op.table_name] = Deref(pre.heap, pre.d)[op.table_name]
      /\ Deref(heap, r).data_dictionary = Deref(pre.heap, pre.d).data_dictionary
----------------------------------------------------------------------------
(* Properties of the fields one_hot_encode encodes *)

\* the fields of the data dictionary that are categorical and of the table
CategoricalOfTable ==
    {PreRows[i].field_name : i \in {j \in 1..Len(PreRows) :
        /\ PreRows[j].field_type = "categorical"
        /\ PreRows[j].table_name = op.table_name}}

\* the fields the call is to encode: all categorical fields of the table
\* when field_names is not supplied, else those of them that field_names
\* holds
TargetFields ==
    IF op.field_names = NoneArg THEN CategoricalOfTable
    ELSE Range(op.field_names) \cap CategoricalOfTable

\* the columns of the caller's table that the returned table does not hold
\* under their name, and the parents of the rows the returned data
\* dictionary holds more than the caller's
ExpandedColumns ==
    {PreColumns[i].name : i \in {j \in 1..Len(PreColumns) :
        ~HasColumn(ResultColumns, PreColumns[j].name)}}
ExpandedParents ==
    {ResultRows[i].parent_field_name : i \in {j \in 1..Len(ResultRows) :
        ~InSeq(ResultRows[j], PreRows)}}

\* C21: a one_hot_encode that returns has encoded exactly the fields that
\* are categorical fields of the table in the data dictionary and, when
\* field_names is supplied, are in field_names: their columns are
\* replaced, the rows added to the data dictionary have them as parents,
\* and every other column of the table is in the returned table with the
\* cells it had. When field_names is supplied and holds no such field the
\* call returns and the table is as it was.
C21_EncodesTargetFields ==
    Encoded =>
      /\ op.err = "none" =>
            /\ ExpandedColumns = TargetFields \cap Range(ColumnNames(PreColumns))
            /\ ExpandedParents \subseteq TargetFields
            /\ \A i \in 1..Len(PreColumns) :
                  PreColumns[i].name \notin TargetFields
                     => InSeq(PreColumns[i], ResultColumns)
      /\ TargetFields = {} =>
            /\ op.err = "none"
            /\ ResultColumns = PreColumns
            /\ ResultRows = PreRows
====
